---- MODULE Spec2Model ----
(***************************************************************************)
(* Model of src/classes/classes.py (getStockTimeSeries and                 *)
(* stockPriceSupportResistance) and of the Analyze handler of src/main.py. *)
(*                                                                         *)
(* Python strings are sequences of one-character strings; Python values    *)
(* (str, float, int, None) are records with the same five fields so that   *)
(* any two of them can be compared.                                        *)
(***************************************************************************)
EXTENDS Integers, Sequences, FiniteSets, TLC

(***************************************************************************)
(* Bounds of the model.                                                    *)
(***************************************************************************)
\* longest series of which every filling with the price bars is scanned
MaxLen == 7
\* length of the series with two dips or two peaks (two qualifying points
\* need 8)
DipsLen == 8
\* longest batch handed to the normalizer
NormLen == 2
\* length of the series the adapter serves to the dashboard request
PipeLen == 6

(***************************************************************************)
(* Python values.                                                          *)
(***************************************************************************)
StrV(s) == [t |-> "str", s |-> s, k |-> "", n |-> 0, e |-> 0]
\* k is "fin", "inf", "ninf" or "nan"; a finite float is n / 10^e
FloatV(k, n, e) == [t |-> "float", s |-> <<>>, k |-> k, n |-> n, e |-> e]
IntV(n) == [t |-> "int", s |-> <<>>, k |-> "fin", n |-> n, e |-> 0]
NoneV == [t |-> "None", s |-> <<>>, k |-> "", n |-> 0, e |-> 0]
\* in place of a value: the call raised the exception named
Raised(name) == [t |-> "raise", s |-> <<>>, k |-> name, n |-> 0, e |-> 0]

RECURSIVE Pow10(_)
Pow10(e) == IF e = 0 THEN 1 ELSE 10 * Pow10(e - 1)

\* the finite float n / 10^e, written with the least e (1.50 is 15 / 10)
RECURSIVE Fin(_, _)
Fin(n, e) == IF e > 0 /\ n % 10 = 0 THEN Fin(n \div 10, e - 1) ELSE FloatV("fin", n, e)

\* ord() of the characters the model's strings are made of
OrdTable ==
    ("-" :> 45) @@ ("." :> 46) @@ ("0" :> 48) @@ ("1" :> 49) @@ ("2" :> 50) @@ ("3" :> 51)
    @@ ("4" :> 52) @@ ("5" :> 53) @@ ("6" :> 54) @@ ("7" :> 55) @@ ("8" :> 56)
    @@ ("9" :> 57) @@ (":" :> 58) @@ ("A" :> 65) @@ ("F" :> 70) @@ ("I" :> 73)
    @@ ("N" :> 78) @@ ("T" :> 84)

Ord(c) == OrdTable[c]

Digits == {"0", "1", "2", "3", "4", "5", "6", "7", "8", "9"}

IsDigit(c) == c \in Digits

AllDigits(s) == \A i \in 1..Len(s) : IsDigit(s[i])

RECURSIVE DigitsValue(_)
DigitsValue(s) ==
    IF s = <<>> THEN 0
    ELSE 10 * DigitsValue(SubSeq(s, 1, Len(s) - 1)) + (Ord(s[Len(s)]) - 48)

\* str < str: code point by code point, a proper prefix is smaller
RECURSIVE StrLess(_, _)
StrLess(a, b) ==
    IF b = <<>> THEN FALSE
    ELSE IF a = <<>> THEN TRUE
    ELSE IF Ord(a[1]) # Ord(b[1]) THEN Ord(a[1]) < Ord(b[1])
    ELSE StrLess(Tail(a), Tail(b))

(***************************************************************************)
(* float(str) and int(str), for strings over the alphabet of Ord: an       *)
(* optional "-", then INF, NAN, or digits with at most one ".".  A decimal *)
(* literal is read exactly, as a float reads one of up to 15 digits; its   *)
(* digits must make a number the integers of the model hold (9 digits).    *)
(***************************************************************************)
Unsigned(s) == IF s # <<>> /\ s[1] = "-" THEN Tail(s) ELSE s
Negative(s) == s # <<>> /\ s[1] = "-"

IsInf(u) == Len(u) = 3 /\ u[1] = "I" /\ u[2] = "N" /\ u[3] = "F"
IsNan(u) == Len(u) = 3 /\ u[1] = "N" /\ u[2] = "A" /\ u[3] = "N"

\* the float of the decimal literal u, read from its i-th character on:
\* digits with at most one "." and at least one digit, else ValueError.
\* mant is the number the digits read so far make, fd how many of them
\* came after the ".", sign is 1 or -1
RECURSIVE ScanDecimal(_, _, _, _, _, _, _)
ScanDecimal(u, i, mant, fd, dot, digit, sign) ==
    IF i > Len(u)
    THEN IF digit THEN Fin(sign * mant, fd) ELSE Raised("ValueError")
    ELSE IF u[i] = "."
         THEN IF dot THEN Raised("ValueError")
              ELSE ScanDecimal(u, i + 1, mant, fd, TRUE, digit, sign)
    ELSE IF IsDigit(u[i])
         THEN ScanDecimal(u, i + 1, 10 * mant + (Ord(u[i]) - 48),
                          IF dot THEN fd + 1 ELSE fd, dot, TRUE, sign)
    ELSE Raised("ValueError")

\* float(s) of a str
ParseFloat(s) ==
    LET u == Unsigned(s) IN
    IF IsInf(u) THEN FloatV(IF Negative(s) THEN "ninf" ELSE "inf", 0, 0)
    ELSE IF IsNan(u) THEN FloatV("nan", 0, 0)
    ELSE ScanDecimal(u, 1, 0, 0, FALSE, FALSE, IF Negative(s) THEN -1 ELSE 1)

\* int(s) of a str
ParseInt(s) ==
    LET u == Unsigned(s) IN
    IF u # <<>> /\ AllDigits(u)
    THEN IntV(IF Negative(s) THEN 0 - DigitsValue(u) ELSE DigitsValue(u))
    ELSE Raised("ValueError")

\* float(value): None is no number, TypeError
PyFloat(v) ==
    CASE v.t = "str" -> ParseFloat(v.s)
      [] v.t = "int" -> FloatV("fin", v.n, 0)
      [] v.t = "float" -> v
      [] OTHER -> Raised("TypeError")

\* int(value): a float is cut towards zero
PyInt(v) ==
    CASE v.t = "str" -> ParseInt(v.s)
      [] v.t = "int" -> v
      [] v.t = "float" /\ v.k = "fin" ->
            IntV(IF v.n >= 0 THEN v.n \div Pow10(v.e) ELSE 0 - ((0 - v.n) \div Pow10(v.e)))
      [] v.t = "float" /\ v.k = "nan" -> Raised("ValueError")
      [] v.t = "float" -> Raised("OverflowError")
      [] OTHER -> Raised("TypeError")

\* the try/except ladder of lines 111-117 for one value: the value to
\* store, or the exception that neither except clause catches
Coerce(v) ==
    LET f == PyFloat(v) IN
    IF f.t # "raise" THEN f
    ELSE IF f.k # "ValueError" THEN f
    ELSE LET i == PyInt(v) IN
         IF i.t # "raise" THEN i
         ELSE IF i.k # "ValueError" THEN i
         ELSE v

(***************************************************************************)
(* Comparison of Python values: == never raises, < raises TypeError        *)
(* unless both are str or both are numbers.                                *)
(***************************************************************************)
IsNumber(v) == v.t \in {"int", "float"}

FloatRank(v) == CASE v.k = "ninf" -> 0 [] v.k = "fin" -> 1 [] v.k = "inf" -> 2 [] OTHER -> 3

\* n / 10^e is its whole part (rounded down) plus a fraction in [0, 1)
IntPart(v) == v.n \div Pow10(v.e)
\* the fraction, in units of 10^-e for an e >= v.e
FracPart(v, e) == (v.n % Pow10(v.e)) * Pow10(e - v.e)

\* a < b for two finite numbers
NumLess(a, b) ==
    LET e == IF a.e > b.e THEN a.e ELSE b.e IN
    \/ IntPart(a) < IntPart(b)
    \/ IntPart(a) = IntPart(b) /\ FracPart(a, e) < FracPart(b, e)

Comparable(a, b) == (a.t = "str" /\ b.t = "str") \/ (IsNumber(a) /\ IsNumber(b))

\* a < b where < is defined
PyLess(a, b) ==
    IF a.t = "str" THEN StrLess(a.s, b.s)
    ELSE /\ a.k # "nan" /\ b.k # "nan"
         /\ \/ FloatRank(a) < FloatRank(b)
            \/ a.k = "fin" /\ b.k = "fin" /\ NumLess(a, b)

\* a < b: "True", "False" or "TypeError"
Lt(a, b) ==
    IF ~Comparable(a, b) THEN "TypeError"
    ELSE IF PyLess(a, b) THEN "True" ELSE "False"

\* a == b
PyEq(a, b) ==
    IF a.t = "str" /\ b.t = "str" THEN a.s = b.s
    ELSE IF IsNumber(a) /\ IsNumber(b)
         THEN a.k # "nan" /\ b.k # "nan" /\ a.k = b.k /\ a.n = b.n /\ a.e = b.e
    ELSE a.t = "None" /\ b.t = "None"

(***************************************************************************)
(* Strings of the model: ISO dates of the series, isoformat() clock        *)
(* readings and price literals.                                            *)
(***************************************************************************)
DigitChar(d) ==
    CASE d = 0 -> "0" [] d = 1 -> "1" [] d = 2 -> "2" [] d = 3 -> "3" [] d = 4 -> "4"
      [] d = 5 -> "5" [] d = 6 -> "6" [] d = 7 -> "7" [] d = 8 -> "8" [] d = 9 -> "9"

\* "2024-01-dd"
Day(d) == <<"2", "0", "2", "4", "-", "0", "1", "-", DigitChar(d \div 10), DigitChar(d % 10)>>

\* "2026-10-30T19:42:0s", a reading of datetime.now().isoformat()
Iso(sec) == <<"2", "0", "2", "6", "-", "1", "0", "-", "3", "0", "T",
              "1", "9", ":", "4", "2", ":", "0", DigitChar(sec)>>

NowValues == {Iso(1), Iso(2)}

\* pd.to_datetime of a "YYYY-MM-DD" string
ToDatetime(v) ==
    [year |-> DigitsValue(SubSeq(v.s, 1, 4)),
     month |-> DigitsValue(SubSeq(v.s, 6, 7)),
     day |-> DigitsValue(SubSeq(v.s, 9, 10))]

(***************************************************************************)
(* The adapter's answer to time_series(...).as_json(): kind is "list",     *)
(* "None" or "raise"; recs is the list of dicts (functions from keys).     *)
(***************************************************************************)
ListFeed(recs) == [kind |-> "list", recs |-> recs]
NoneFeed == [kind |-> "None", recs |-> <<>>]
RaiseFeed == [kind |-> "raise", recs |-> <<>>]

Candle(dt, o, h, l, c) ==
    [datetime |-> StrV(dt), open |-> StrV(o), high |-> StrV(h), low |-> StrV(l),
     close |-> StrV(c)]

(***************************************************************************)
(* getStockTimeSeries.  symbol is a Python value: a str, or None.          *)
(***************************************************************************)
\* the order in which a record lists its keys: those of the adapter, then
\* the two that line 107 and line 108 add
KeyOrder == <<"datetime", "open", "high", "low", "close", "volume",
              "execution_timestamp", "ticker">>

\* the loop of lines 109-117 from the j-th key on: the entry afterwards and
\* the exception that ended the loop ("" when it ran to its end)
RECURSIVE ConvertKeys(_, _)
ConvertKeys(entry, j) ==
    IF j > Len(KeyOrder) THEN [exc |-> "", entry |-> entry]
    ELSE IF KeyOrder[j] \notin DOMAIN entry \/ KeyOrder[j] = "datetime"
         THEN ConvertKeys(entry, j + 1)
    ELSE LET c == Coerce(entry[KeyOrder[j]]) IN
         IF c.t = "raise" THEN [exc |-> c.k, entry |-> entry]
         ELSE ConvertKeys([entry EXCEPT ![KeyOrder[j]] = c], j + 1)

\* one pass of the loop body of _convert_prices_to_numeric, lines 107-117
ConvertEntry(entry, execution_timestamp, symbol) ==
    ConvertKeys([key \in DOMAIN entry \cup {"execution_timestamp", "ticker"} |->
                   IF key = "execution_timestamp" THEN StrV(execution_timestamp)
                   ELSE IF key = "ticker" THEN symbol
                   ELSE entry[key]], 1)

\* the loop of line 106 from entry i on: the list afterwards (it is changed
\* in place) and the exception that ended the loop
RECURSIVE ConvertFrom(_, _, _, _)
ConvertFrom(raw_data, i, execution_timestamp, symbol) ==
    IF i > Len(raw_data) THEN [exc |-> "", recs |-> raw_data]
    ELSE LET c == ConvertEntry(raw_data[i], execution_timestamp, symbol) IN
         IF c.exc # "" THEN [exc |-> c.exc, recs |-> [raw_data EXCEPT ![i] = c.entry]]
         ELSE ConvertFrom([raw_data EXCEPT ![i] = c.entry], i + 1,
                          execution_timestamp, symbol)

ConvertPricesToNumeric(raw_data, execution_timestamp, symbol) ==
    ConvertFrom(raw_data, 1, execution_timestamp, symbol)

EntryHasEmpty(entry) ==
    \E key \in DOMAIN entry : entry[key] = StrV(<<>>) \/ entry[key].t = "None"

\* _check_for_empty_data raises ValueError
CheckForEmptyDataRaises(raw_data) ==
    \E i \in 1..Len(raw_data) : EntryHasEmpty(raw_data[i])

\* Variant: each entry is checked right before it is converted, so the
\* entries ahead of the first empty one are converted before the raise.
ValidateAndConvertEager(raw_data, execution_timestamp, symbol) ==
    IF CheckForEmptyDataRaises(raw_data)
    THEN LET bad == CHOOSE i \in 1..Len(raw_data) :
                       /\ EntryHasEmpty(raw_data[i])
                       /\ \A j \in 1..(i - 1) : ~EntryHasEmpty(raw_data[j])
         IN  [exc |-> "ValueError",
              recs |-> [i \in 1..Len(raw_data) |->
                          IF i < bad
                          THEN ConvertEntry(raw_data[i], execution_timestamp, symbol).entry
                          ELSE raw_data[i]]]
    ELSE ConvertPricesToNumeric(raw_data, execution_timestamp, symbol)

\* lines 146-148 of get_processed_data on a non-empty list: the outcome and
\* the list's records afterwards (the list is converted in place)
ValidateAndConvert(raw_data, execution_timestamp, symbol) ==
    IF CheckForEmptyDataRaises(raw_data)
    THEN [exc |-> "ValueError", recs |-> raw_data]
    ELSE ConvertPricesToNumeric(raw_data, execution_timestamp, symbol)

\* lines 143-148 of get_processed_data, after fetch_data returned feed
Normalize(feed, execution_timestamp, symbol) ==
    IF feed.kind = "None" \/ Len(feed.recs) = 0
    THEN [exc |-> "ValueError", recs |-> feed.recs]
    ELSE ValidateAndConvert(feed.recs, execution_timestamp, symbol)

\* get_processed_data: exc is "" when it returns recs, else the exception
GetProcessedData(feed, execution_timestamp, symbol) ==
    IF feed.kind = "raise" THEN [exc |-> "RuntimeError", recs |-> <<>>]
    ELSE Normalize(feed, execution_timestamp, symbol)

(***************************************************************************)
(* stockPriceSupportResistance: the extrema scanner.  Python indexes are   *)
(* 0-based: At(data, i) is data[i].                                        *)
(***************************************************************************)
At(data, i) == data[i + 1]

Level(price, datetime) == [price |-> price, datetime |-> datetime]

\* "c and d" of two comparisons: d is evaluated, and may raise, only when
\* c is "True"
AndThen(c, d) == IF c = "True" THEN d ELSE c

\* Variant of the window test: the right-hand neighbours may tie.
IsSupportAtLoose(processed_data, i) ==
    LET r1 == Lt(At(processed_data, i + 1)["low"], At(processed_data, i)["low"])
        r2 == Lt(At(processed_data, i + 2)["low"], At(processed_data, i)["low"])
    IN  AndThen(Lt(At(processed_data, i)["low"], At(processed_data, i - 1)["low"]),
        AndThen(Lt(At(processed_data, i)["low"], At(processed_data, i - 2)["low"]),
                IF r1 = "TypeError" \/ r2 = "TypeError" THEN "TypeError"
                ELSE IF r1 = "False" /\ r2 = "False" THEN "True" ELSE "False"))

\* the condition of lines 221-226
IsSupportAt(processed_data, i) ==
    AndThen(Lt(At(processed_data, i)["low"], At(processed_data, i - 1)["low"]),
    AndThen(Lt(At(processed_data, i)["low"], At(processed_data, i - 2)["low"]),
    AndThen(Lt(At(processed_data, i)["low"], At(processed_data, i + 1)["low"]),
            Lt(At(processed_data, i)["low"], At(processed_data, i + 2)["low"]))))

\* Variant of the window test: the left-hand neighbours may tie.
IsResistanceAtLoose(processed_data, i) ==
    LET l1 == Lt(At(processed_data, i)["high"], At(processed_data, i - 1)["high"])
        l2 == Lt(At(processed_data, i)["high"], At(processed_data, i - 2)["high"])
    IN  IF l1 = "TypeError" \/ l2 = "TypeError" THEN "TypeError"
        ELSE IF l1 = "True" \/ l2 = "True" THEN "False"
        ELSE AndThen(Lt(At(processed_data, i + 1)["high"], At(processed_data, i)["high"]),
                     Lt(At(processed_data, i + 2)["high"], At(processed_data, i)["high"]))

\* the condition of lines 252-257 (a > b is b < a)
IsResistanceAt(processed_data, i) ==
    AndThen(Lt(At(processed_data, i - 1)["high"], At(processed_data, i)["high"]),
    AndThen(Lt(At(processed_data, i - 2)["high"], At(processed_data, i)["high"]),
    AndThen(Lt(At(processed_data, i + 1)["high"], At(processed_data, i)["high"]),
            Lt(At(processed_data, i + 2)["high"], At(processed_data, i)["high"]))))

\* the loop of lines 220-229, from index i on: range(2, len - 2); the
\* levels appended, and the exception that ended the loop
RECURSIVE SupportLoop(_, _)
SupportLoop(processed_data, i) ==
    IF i >= Len(processed_data) - 2 THEN [exc |-> "", levels |-> <<>>]
    ELSE LET c == IsSupportAt(processed_data, i) IN
         IF c = "TypeError" THEN [exc |-> c, levels |-> <<>>]
         ELSE LET rest == SupportLoop(processed_data, i + 1) IN
              [exc |-> rest.exc,
               levels |-> (IF c = "True"
                           THEN <<Level(At(processed_data, i)["low"],
                                        At(processed_data, i)["datetime"])>>
                           ELSE <<>>) \o rest.levels]

\* the loop of lines 251-260, from index i on
RECURSIVE ResistanceLoop(_, _)
ResistanceLoop(processed_data, i) ==
    IF i >= Len(processed_data) - 2 THEN [exc |-> "", levels |-> <<>>]
    ELSE LET c == IsResistanceAt(processed_data, i) IN
         IF c = "TypeError" THEN [exc |-> c, levels |-> <<>>]
         ELSE LET rest == ResistanceLoop(processed_data, i + 1) IN
              [exc |-> rest.exc,
               levels |-> (IF c = "True"
                           THEN <<Level(At(processed_data, i)["high"],
                                        At(processed_data, i)["datetime"])>>
                           ELSE <<>>) \o rest.levels]

\* Variant of the list comparison: the datetime is not compared.
LevelLessPriceOnly(a, b) == Lt(a.price, b.price)

\* [price, datetime] < [price, datetime]: the first item that differs (by
\* ==) decides, by <
LevelLess(a, b) ==
    IF ~PyEq(a.price, b.price) THEN Lt(a.price, b.price)
    ELSE IF ~PyEq(a.datetime, b.datetime) THEN Lt(a.datetime, b.datetime)
    ELSE "False"

\* min(levels) of a non-empty list: a later item replaces the best only if
\* smaller; exc names the exception a comparison raised
RECURSIVE MinFrom(_, _, _)
MinFrom(levels, i, best) ==
    IF i > Len(levels) THEN [exc |-> "", level |-> best]
    ELSE LET c == LevelLess(levels[i], best) IN
         IF c = "TypeError" THEN [exc |-> c, level |-> best]
         ELSE MinFrom(levels, i + 1, IF c = "True" THEN levels[i] ELSE best)

PyMin(levels) == MinFrom(levels, 2, levels[1])

\* max(levels) of a non-empty list: a later item replaces the best only if greater
RECURSIVE MaxFrom(_, _, _)
MaxFrom(levels, i, best) ==
    IF i > Len(levels) THEN [exc |-> "", level |-> best]
    ELSE LET c == LevelLess(best, levels[i]) IN
         IF c = "TypeError" THEN [exc |-> c, level |-> best]
         ELSE MaxFrom(levels, i + 1, IF c = "True" THEN levels[i] ELSE best)

PyMax(levels) == MaxFrom(levels, 2, levels[1])

(***************************************************************************)
(* What find_support_levels / find_resistance_levels hand back: kind is    *)
(* "list" (levels is the list), "level" (levels holds the one level),      *)
(* "None", or "raise" (exc names the exception).                           *)
(***************************************************************************)
ListResult(levels) == [kind |-> "list", levels |-> levels, exc |-> ""]
LevelResult(level) == [kind |-> "level", levels |-> <<level>>, exc |-> ""]
NoneResult == [kind |-> "None", levels |-> <<>>, exc |-> ""]
RaiseResult(exc) == [kind |-> "raise", levels |-> <<>>, exc |-> exc]

\* the one level min() or max() gave, or its exception
Extreme(found) == IF found.exc # "" THEN RaiseResult(found.exc) ELSE LevelResult(found.level)

\* Variant of lines 231-234: the global level is the first one found.
SupportReturnFirst(support_levels, global_only) ==
    IF global_only
    THEN IF support_levels # <<>> THEN LevelResult(support_levels[1]) ELSE NoneResult
    ELSE ListResult(support_levels)

\* lines 231-234
SupportReturn(support_levels, global_only) ==
    IF global_only
    THEN IF support_levels # <<>> THEN Extreme(PyMin(support_levels)) ELSE NoneResult
    ELSE ListResult(support_levels)

\* Variant of lines 262-265: max() is called on the empty list too.
ResistanceReturnUnguarded(resistance_levels, global_only) ==
    IF global_only
    THEN IF resistance_levels # <<>> THEN Extreme(PyMax(resistance_levels))
         ELSE RaiseResult("ValueError")
    ELSE ListResult(resistance_levels)

\* lines 262-265
ResistanceReturn(resistance_levels, global_only) ==
    IF global_only
    THEN IF resistance_levels # <<>> THEN Extreme(PyMax(resistance_levels))
         ELSE NoneResult
    ELSE ListResult(resistance_levels)

\* lines 218-234, given what get_processed_data gave
SupportScan(got, global_only) ==
    IF got.exc # "" THEN RaiseResult(got.exc)
    ELSE LET found == SupportLoop(got.recs, 2) IN
         IF found.exc # "" THEN RaiseResult(found.exc)
         ELSE SupportReturn(found.levels, global_only)

\* lines 249-265, given what get_processed_data gave
ResistanceScan(got, global_only) ==
    IF got.exc # "" THEN RaiseResult(got.exc)
    ELSE LET found == ResistanceLoop(got.recs, 2) IN
         IF found.exc # "" THEN RaiseResult(found.exc)
         ELSE ResistanceReturn(found.levels, global_only)

\* find_support_levels(global_only) when the adapter answers feed
FindSupportLevels(feed, execution_timestamp, symbol, global_only) ==
    SupportScan(GetProcessedData(feed, execution_timestamp, symbol), global_only)

\* find_resistance_levels(global_only) when the adapter answers feed
FindResistanceLevels(feed, execution_timestamp, symbol, global_only) ==
    ResistanceScan(GetProcessedData(feed, execution_timestamp, symbol), global_only)

(***************************************************************************)
(* State.                                                                  *)
(***************************************************************************)
VARIABLES
    symbol,            \* self.symbol
    global_only,       \* the global_only argument of the call
    feed,              \* the adapter's answer to fetch_data
    first_feed,        \* the adapter's first answer within the request
    stable,            \* every answer within the request equalled the first
    op,                \* the method last called on the object
    got,               \* get_processed_data: the exception and the list's records
    result,            \* what find_support_levels / find_resistance_levels gave
    pc,                \* position of the Analyze handler
    stages,            \* the stages the request has executed, in order
    processed_data,    \* processed_data of the chart method
    df,                \* the DataFrame of the chart method
    scan_data,         \* processed_data of the running find_* call
    support_levels,    \* support_levels of the chart method
    resistance_levels, \* resistance_levels of the chart method
    shapes,            \* the lines added to the figure
    exc                \* the exception the chart method raised

vars == <<symbol, global_only, feed, first_feed, stable, op, got, result, pc, stages,
          processed_data, df, scan_data, support_levels, resistance_levels, shapes, exc>>

pipeVars == <<first_feed, stable, pc, stages, processed_data, df, scan_data,
              support_levels, resistance_levels, shapes, exc>>

DeadFeed == [kind |-> "dead", recs |-> <<>>]
NoGot == [exc |-> "", recs |-> <<>>]

\* no request is running
PipeIdle ==
    /\ first_feed = DeadFeed
    /\ stable = TRUE
    /\ pc = "idle"
    /\ stages = <<>>
    /\ processed_data = <<>>
    /\ df = <<>>
    /\ scan_data = <<>>
    /\ support_levels = NoneResult
    /\ resistance_levels = NoneResult
    /\ shapes = <<>>
    /\ exc = ""

\* tickers: Agilent, Ford, Informa (LSE: INF); and an object built with no symbol
Symbols == {StrV(<<"A">>), StrV(<<"F">>), StrV(<<"I", "N", "F">>), NoneV}

Keys == {"datetime", "open", "high", "low", "close"}

(***************************************************************************)
(* The normalizer alone: get_processed_data on the batches of NormFeeds.   *)
(***************************************************************************)
\* two well-formed rows; "NA" is a field no number can be read from
NormRow(i, variant) ==
    IF variant = 1 THEN Candle(Day(i), <<"2">>, <<"3">>, <<"1", ".", "5">>, <<"2">>)
    ELSE Candle(Day(i), <<"1", "0">>, <<"N", "A">>, <<"-", "2">>, <<"3", ".">>)

NormBases ==
    UNION {{[i \in 1..n |-> NormRow(i, v[i])] : v \in [1..n -> {1, 2}]} : n \in 1..NormLen}

EmptyValues == {StrV(<<>>), NoneV}

\* recs with the field key of record i replaced by value (i = 0: unchanged)
WithField(recs, i, key, value) ==
    IF i = 0 \/ i > Len(recs) THEN recs
    ELSE [recs EXCEPT ![i] = [@ EXCEPT ![key] = value]]

\* a well-formed batch with up to two fields emptied
IsNormFeed(f) ==
    \/ f = NoneFeed
    \/ f = RaiseFeed
    \/ f = ListFeed(<<>>)
    \/ \E b \in NormBases, c1 \in (0..NormLen) \X Keys, c2 \in (0..NormLen) \X Keys,
          e1 \in EmptyValues, e2 \in EmptyValues :
           f = ListFeed(WithField(WithField(b, c1[1], c1[2], e1), c2[1], c2[2], e2))

InitNorm ==
    /\ symbol \in Symbols
    /\ global_only = FALSE
    /\ IsNormFeed(feed)
    /\ op = ""
    /\ got = NoGot
    /\ result = NoneResult
    /\ PipeIdle

CallGetProcessedData ==
    \E now \in NowValues :
        /\ op = ""
        /\ got' = GetProcessedData(feed, now, symbol)
        /\ op' = "get_processed_data"
        /\ UNCHANGED <<symbol, global_only, feed, result, pipeVars>>

NextNorm == CallGetProcessedData

SpecNorm == InitNorm /\ [][NextNorm]_vars

(***************************************************************************)
(* The scanner alone: find_support_levels and find_resistance_levels on    *)
(* the series of ScanFeeds.                                                *)
(***************************************************************************)
\* the (low, high) of a point; as strings "10" < "2.21" < "2.25" and
\* "10" < "11" < "3", as numbers 2.21 < 2.25 < 10 and 3 < 10 < 11
PriceBars == {<< <<"2", ".", "2", "1">>, <<"3">> >>,
              << <<"2", ".", "2", "5">>, <<"1", "0">> >>,
              << <<"1", "0">>, <<"1", "1">> >>}

\* time_series answers newest first
Orders == {"desc"}

\* the date of point i (1-based) of a series of n points
DateOf(order, n, i) == IF order = "asc" THEN Day(i) ELSE Day(n + 1 - i)

Series(order, lows, highs) ==
    [i \in 1..Len(lows) |->
        Candle(DateOf(order, Len(lows), i), lows[i], highs[i], lows[i], highs[i])]

Flat(n, price) == [i \in 1..n |-> price]

\* low = [5,4,3,2,3,4,5] under a flat high
ExampleSupport ==
    Series("asc", <<<<"5">>, <<"4">>, <<"3">>, <<"2">>, <<"3">>, <<"4">>, <<"5">>>>,
           Flat(7, <<"5">>))

\* high = [1,2,3,4,3,2,1] over a flat low
ExampleResistance ==
    Series("asc", Flat(7, <<"1">>),
           <<<<"1">>, <<"2">>, <<"3">>, <<"4">>, <<"3">>, <<"2">>, <<"1">>>>)

\* "NA" is left a str by the conversion: a low next to the window of index 2
ExampleUnparsedLow ==
    Series("desc", <<<<"3">>, <<"N", "A">>, <<"2">>, <<"3">>, <<"3">>>>, Flat(5, <<"5">>))

\* an unparsed high at index 2 itself
ExampleUnparsedHigh ==
    Series("desc", Flat(5, <<"1">>), <<<<"3">>, <<"3">>, <<"N", "A">>, <<"3">>, <<"3">>>>)

\* an unparsed low the comparisons never reach: 4 < 5 fails ahead of it
ExampleUnparsedSkipped ==
    Series("desc", <<<<"4">>, <<"4">>, <<"5">>, <<"4">>, <<"N", "A">>>>, Flat(5, <<"5">>))

\* no window fits in 4 points
ExampleUnparsedShort ==
    Series("desc", <<<<"N", "A">>, <<"3">>, <<"2">>, <<"3">>>>, Flat(4, <<"5">>))

\* DipsLen points: bar p at index 2, bar q at index 5, bar r elsewhere.  With
\* r the dearest bar the lows dip twice, with r the cheapest the highs peak
\* twice; p = q makes the two tie.
Dips(p, q, r) ==
    LET bars == [i \in 1..DipsLen |-> IF i = 3 THEN p ELSE IF i = 6 THEN q ELSE r]
    IN  Series("desc", [i \in 1..DipsLen |-> bars[i][1]], [i \in 1..DipsLen |-> bars[i][2]])

\* series of 1..MaxLen points, each with one of the price bars; the series
\* of two dips or peaks; and the example series
IsScanFeed(f) ==
    \/ \E n \in 1..MaxLen, o \in Orders :
         \E bars \in [1..n -> PriceBars] :
            f = ListFeed(Series(o, [i \in 1..n |-> bars[i][1]], [i \in 1..n |-> bars[i][2]]))
    \/ \E p \in PriceBars, q \in PriceBars, r \in PriceBars : f = ListFeed(Dips(p, q, r))
    \/ f = ListFeed(ExampleSupport)
    \/ f = ListFeed(ExampleResistance)
    \/ f = ListFeed(ExampleUnparsedLow)
    \/ f = ListFeed(ExampleUnparsedHigh)
    \/ f = ListFeed(ExampleUnparsedSkipped)
    \/ f = ListFeed(ExampleUnparsedShort)

\* the scanner's results do not carry the clock reading
ScanNowValues == {Iso(1)}

\* a fresh object; one of the two methods is then called on it, once
InitScan ==
    /\ symbol = StrV(<<"A">>)
    /\ global_only = FALSE
    /\ IsScanFeed(feed)
    /\ op = ""
    /\ got = NoGot
    /\ result = NoneResult
    /\ PipeIdle

CallFindSupportLevels ==
    \E g \in BOOLEAN, now \in ScanNowValues :
        /\ op = ""
        /\ result' = FindSupportLevels(feed, now, symbol, g)
        /\ global_only' = g
        /\ op' = "find_support_levels"
        /\ UNCHANGED <<symbol, feed, got, pipeVars>>

CallFindResistanceLevels ==
    \E g \in BOOLEAN, now \in ScanNowValues :
        /\ op = ""
        /\ result' = FindResistanceLevels(feed, now, symbol, g)
        /\ global_only' = g
        /\ op' = "find_resistance_levels"
        /\ UNCHANGED <<symbol, feed, got, pipeVars>>

NextScan == CallFindSupportLevels \/ CallFindResistanceLevels

SpecScan == InitScan /\ [][NextScan]_vars

(***************************************************************************)
(* The chart method's overlay, lines 301-345.                              *)
(***************************************************************************)
\* lines 280-281: the DataFrame, its datetime column parsed
DataFrame(data) ==
    [i \in 1..Len(data) |->
        [datetime |-> ToDatetime(data[i]["datetime"]), open |-> data[i]["open"],
         high |-> data[i]["high"], low |-> data[i]["low"], close |-> data[i]["close"]]]

\* "if support_levels:" - a non-empty list, or the [price, datetime] of a level
Truthy(levels) == levels.kind = "level" \/ (levels.kind = "list" /\ levels.levels # <<>>)

\* df[df[column] == price].index, as a set of 0-based positions
Matches(frame, column, price) ==
    {i \in 0..(Len(frame) - 1) : PyEq(At(frame, i)[column], price)}

\* .index[0] of it
FirstMatch(frame, column, price) ==
    CHOOSE i \in Matches(frame, column, price) :
        \A k \in Matches(frame, column, price) : i <= k

\* the fig.add_shape call of one level
Line(frame, index, price, color) ==
    [x0 |-> At(frame, index).datetime, y0 |-> price,
     x1 |-> At(frame, 0).datetime, y1 |-> price, color |-> color]

\* the add_shape calls for levels[j..]: the shapes added, and "IndexError"
\* when a price is not in the column (.index[0] of an empty index)
RECURSIVE AddLines(_, _, _, _, _)
AddLines(frame, column, levels, j, color) ==
    IF j > Len(levels) THEN [exc |-> "", shapes |-> <<>>]
    ELSE IF Matches(frame, column, levels[j].price) = {}
         THEN [exc |-> "IndexError", shapes |-> <<>>]
    ELSE LET rest == AddLines(frame, column, levels, j + 1, color)
         IN  [exc |-> rest.exc,
              shapes |-> <<Line(frame, FirstMatch(frame, column, levels[j].price),
                                levels[j].price, color)>> \o rest.shapes]

\* lines 301-322 and 324-345: one branch for the one global level (whose
\* [0] is its price), one loop over the list
Overlay(frame, column, levels, color) ==
    IF Truthy(levels) THEN AddLines(frame, column, levels.levels, 1, color)
    ELSE [exc |-> "", shapes |-> <<>>]

(***************************************************************************)
(* One Analyze request of the dashboard, step by step:                     *)
(* create_candlestick_chart_with_support_resistance and the three          *)
(* get_processed_data calls it makes.                                      *)
(***************************************************************************)
\* the (low, high) of a point of the series the dashboard is served
PipeBars == {<< <<"2", ".", "2", "1">>, <<"3">> >>, << <<"2", ".", "2", "5">>, <<"1", "0">> >>}

PipeSeries(bars) ==
    Series("desc", [i \in 1..Len(bars) |-> bars[i][1]], [i \in 1..Len(bars) |-> bars[i][2]])

FetchSites == {"chart_fetch", "support_fetch", "resistance_fetch"}
NormalizeSites == {"chart_normalize", "support_normalize", "resistance_normalize"}

\* where control goes when the step at pc completes
After(at) ==
    CASE at = "chart_fetch" -> "chart_normalize"
      [] at = "chart_normalize" -> "chart_figure"
      [] at = "chart_figure" -> "support_fetch"
      [] at = "support_fetch" -> "support_normalize"
      [] at = "support_normalize" -> "support_scan"
      [] at = "support_scan" -> "resistance_fetch"
      [] at = "resistance_fetch" -> "resistance_normalize"
      [] at = "resistance_normalize" -> "resistance_scan"
      [] at = "resistance_scan" -> "support_lines"
      [] at = "support_lines" -> "resistance_lines"
      [] at = "resistance_lines" -> "layout"
      [] at = "layout" -> "returned"

Init ==
    /\ symbol = StrV(<<"A">>)
    /\ global_only = FALSE
    /\ feed = DeadFeed
    /\ op = ""
    /\ got = NoGot
    /\ result = NoneResult
    /\ PipeIdle

\* main.py 36-46: the button is pressed; the object is built and the chart
\* method called with the checkbox's value
Analyze ==
    /\ pc = "idle"
    /\ \E g \in BOOLEAN : global_only' = g
    /\ pc' = "chart_fetch"
    /\ UNCHANGED <<symbol, feed, first_feed, stable, op, got, result, stages,
                   processed_data, df, scan_data, support_levels, resistance_levels,
                   shapes, exc>>

\* fetch_data, called by get_processed_data (line 141), gives answer
Fetched(answer) ==
    /\ stages' = Append(stages, "fetch")
    /\ first_feed' = IF pc = "chart_fetch" THEN answer ELSE first_feed
    /\ stable' = IF pc = "chart_fetch" THEN TRUE ELSE stable /\ answer = first_feed
    /\ IF answer.kind = "raise"
       THEN /\ feed' = DeadFeed
            /\ exc' = "RuntimeError"
            /\ pc' = "raised"
       ELSE /\ feed' = answer
            /\ exc' = exc
            /\ pc' = After(pc)
    /\ UNCHANGED <<symbol, global_only, op, got, result, processed_data, df, scan_data,
                   support_levels, resistance_levels, shapes>>

\* the adapter gives a series of PipeLen points, a series of 4, a series with
\* an empty field, an empty list or None, or fails
FetchData ==
    /\ pc \in FetchSites
    /\ \/ \E bars \in [1..PipeLen -> PipeBars] : Fetched(ListFeed(PipeSeries(bars)))
       \/ \E bars \in [1..4 -> PipeBars] : Fetched(ListFeed(PipeSeries(bars)))
       \/ \E bars \in [1..2 -> PipeBars] :
            Fetched(ListFeed(WithField(PipeSeries(bars), 2, "low", StrV(<<>>))))
       \/ Fetched(ListFeed(<<>>))
       \/ Fetched(NoneFeed)
       \/ Fetched(RaiseFeed)

\* the reading of datetime.now() at each of the request's three conversions
NowAt(at) ==
    CASE at = "chart_normalize" -> Iso(1)
      [] at = "support_normalize" -> Iso(2)
      [] at = "resistance_normalize" -> Iso(3)

\* lines 143-148 of get_processed_data; the fetched list is the one returned
NormalizeData ==
    /\ pc \in NormalizeSites
    /\ \E now \in {NowAt(pc)} :
         LET done == Normalize(feed, now, symbol) IN
         /\ stages' = Append(stages, "normalize")
         /\ feed' = DeadFeed
         /\ IF done.exc # ""
            THEN /\ exc' = done.exc
                 /\ pc' = "raised"
                 /\ UNCHANGED <<processed_data, scan_data>>
            ELSE /\ exc' = exc
                 /\ pc' = After(pc)
                 /\ IF pc = "chart_normalize"
                    THEN processed_data' = done.recs /\ scan_data' = scan_data
                    ELSE scan_data' = done.recs /\ processed_data' = processed_data
    /\ UNCHANGED <<symbol, global_only, first_feed, stable, op, got, result, df,
                   support_levels, resistance_levels, shapes>>

\* lines 280-296: the DataFrame and the candlestick figure
BuildFigure ==
    /\ pc = "chart_figure"
    /\ df' = DataFrame(processed_data)
    /\ stages' = Append(stages, "render")
    /\ pc' = After(pc)
    /\ UNCHANGED <<symbol, global_only, feed, first_feed, stable, op, got, result,
                   processed_data, scan_data, support_levels, resistance_levels,
                   shapes, exc>>

\* what get_processed_data returned to the running find_* call
Scanned == [exc |-> "", recs |-> scan_data]

\* lines 218-234 of find_support_levels, called at line 298
ScanSupport ==
    /\ pc = "support_scan"
    /\ LET found == SupportScan(Scanned, global_only) IN
         IF found.kind = "raise"
         THEN /\ exc' = found.exc
              /\ pc' = "raised"
              /\ support_levels' = support_levels
         ELSE /\ exc' = exc
              /\ pc' = After(pc)
              /\ support_levels' = found
    /\ scan_data' = <<>>
    /\ stages' = Append(stages, "scan")
    /\ UNCHANGED <<symbol, global_only, feed, first_feed, stable, op, got, result,
                   processed_data, df, resistance_levels, shapes>>

\* lines 249-265 of find_resistance_levels, called at line 299
ScanResistance ==
    /\ pc = "resistance_scan"
    /\ LET found == ResistanceScan(Scanned, global_only) IN
         IF found.kind = "raise"
         THEN /\ exc' = found.exc
              /\ pc' = "raised"
              /\ resistance_levels' = resistance_levels
         ELSE /\ exc' = exc
              /\ pc' = After(pc)
              /\ resistance_levels' = found
    /\ scan_data' = <<>>
    /\ stages' = Append(stages, "scan")
    /\ UNCHANGED <<symbol, global_only, feed, first_feed, stable, op, got, result,
                   processed_data, df, support_levels, shapes>>

\* the overlay of one kind of level: the shapes it adds, and the raise
Overlaid(added) ==
    /\ shapes' = shapes \o added.shapes
    /\ stages' = Append(stages, "render")
    /\ IF added.exc # ""
       THEN exc' = added.exc /\ pc' = "raised"
       ELSE exc' = exc /\ pc' = After(pc)
    /\ UNCHANGED <<symbol, global_only, feed, first_feed, stable, op, got, result,
                   processed_data, df, scan_data, support_levels, resistance_levels>>

\* lines 301-322
AddSupportLines ==
    /\ pc = "support_lines"
    /\ Overlaid(Overlay(df, "low", support_levels, "blue"))

\* lines 324-345
AddResistanceLines ==
    /\ pc = "resistance_lines"
    /\ Overlaid(Overlay(df, "high", resistance_levels, "orange"))

\* lines 347-356: the title and the return of the figure
UpdateLayout ==
    /\ pc = "layout"
    /\ stages' = Append(stages, "render")
    /\ pc' = After(pc)
    /\ UNCHANGED <<symbol, global_only, feed, first_feed, stable, op, got, result,
                   processed_data, df, scan_data, support_levels, resistance_levels,
                   shapes, exc>>

\* main.py 47: the figure is shown
ShowPlot ==
    /\ pc = "returned"
    /\ pc' = "shown"
    /\ UNCHANGED <<symbol, global_only, feed, first_feed, stable, op, got, result, stages,
                   processed_data, df, scan_data, support_levels, resistance_levels,
                   shapes, exc>>

\* main.py 49-52: a RuntimeError becomes the rate-limit warning
WarnRateLimit ==
    /\ pc = "raised" /\ exc = "RuntimeError"
    /\ pc' = "warned"
    /\ UNCHANGED <<symbol, global_only, feed, first_feed, stable, op, got, result, stages,
                   processed_data, df, scan_data, support_levels, resistance_levels,
                   shapes, exc>>

\* main.py 37-49: any other exception leaves the handler
Escape ==
    /\ pc = "raised" /\ exc # "RuntimeError"
    /\ pc' = "crashed"
    /\ UNCHANGED <<symbol, global_only, feed, first_feed, stable, op, got, result, stages,
                   processed_data, df, scan_data, support_levels, resistance_levels,
                   shapes, exc>>

Next ==
    \/ Analyze
    \/ FetchData
    \/ NormalizeData
    \/ BuildFigure
    \/ ScanSupport
    \/ ScanResistance
    \/ AddSupportLines
    \/ AddResistanceLines
    \/ UpdateLayout
    \/ ShowPlot
    \/ WarnRateLimit
    \/ Escape

Spec == Init /\ [][Next]_vars

(***************************************************************************)
(* What the scanner is specified to find, read off the adapter's answer.   *)
(***************************************************************************)
FeedLen == Len(feed.recs)
\* the low / high of point i (0-based), as the number its literal denotes
RawLow(i) == ParseFloat(feed.recs[i + 1]["low"].s)
RawHigh(i) == ParseFloat(feed.recs[i + 1]["high"].s)
RawDate(i) == feed.recs[i + 1]["datetime"]

\* every low, resp. high, of the series is a finite number
NumericLows == \A i \in 0..(FeedLen - 1) : RawLow(i).t = "float" /\ RawLow(i).k = "fin"
NumericHighs == \A i \in 0..(FeedLen - 1) : RawHigh(i).t = "float" /\ RawHigh(i).k = "fin"

\* a.n / 10^a.e < b.n / 10^b.e
Below(a, b) == a.n * Pow10(b.e) < b.n * Pow10(a.e)

Neighbours == {-2, -1, 1, 2}

SupportIdx ==
    LET low == [i \in 0..(FeedLen - 1) |-> RawLow(i)] IN
    {i \in 2..(FeedLen - 3) : \A d \in Neighbours : Below(low[i], low[i + d])}
ResistanceIdx ==
    LET high == [i \in 0..(FeedLen - 1) |-> RawHigh(i)] IN
    {i \in 2..(FeedLen - 3) : \A d \in Neighbours : Below(high[i + d], high[i])}

\* the j-th smallest member of S
Nth(S, j) == CHOOSE i \in S : Cardinality({k \in S : k < i}) = j - 1

SupportLevelAt(i) == Level(RawLow(i), RawDate(i))
ResistanceLevelAt(i) == Level(RawHigh(i), RawDate(i))

ExpectedSupport ==
    LET S == SupportIdx IN [j \in 1..Cardinality(S) |-> SupportLevelAt(Nth(S, j))]
ExpectedResistance ==
    LET S == ResistanceIdx IN [j \in 1..Cardinality(S) |-> ResistanceLevelAt(Nth(S, j))]

\* C1: on a series with numeric lows find_support_levels(global_only=False)
\* returns exactly the
\* [low[i], datetime[i]] of the indices 2 <= i <= n-3 whose low is strictly
\* below the lows of i-2, i-1, i+1 and i+2, in ascending order of i.
C1_SupportAllLevels ==
    (op = "find_support_levels" /\ ~global_only /\ NumericLows)
        => result = ListResult(ExpectedSupport)

\* two support points of different prices were returned, in index order
C1_Witness ==
    /\ op = "find_support_levels" /\ ~global_only
    /\ Len(result.levels) = 2
    /\ result.levels[1].price # result.levels[2].price
    /\ \E i \in 2..(FeedLen - 3) : i \notin SupportIdx /\ RawLow(i) = RawLow(i + 1)

\* C2: on a series with numeric highs
\* find_resistance_levels(global_only=False) returns exactly the
\* [high[i], datetime[i]] of the indices 2 <= i <= n-3 whose high is strictly
\* above the highs of i-2, i-1, i+1 and i+2, in ascending order of i.
C2_ResistanceAllLevels ==
    (op = "find_resistance_levels" /\ ~global_only /\ NumericHighs)
        => result = ListResult(ExpectedResistance)

\* high = [1,2,3,4,3,2,1] gave index 3 (price 4) only
C2_Witness ==
    /\ op = "find_resistance_levels" /\ ~global_only
    /\ feed = ListFeed(ExampleResistance)
    /\ result.levels = <<Level(FloatV("fin", 4, 0), StrV(Day(4)))>>

\* C3: on a series with numeric prices, with global_only=True the scanner
\* returns None exactly when no index
\* qualifies, and otherwise one qualifying point whose price is the minimum
\* (support) or the maximum (resistance) over all qualifying points.
C3_GlobalOnly ==
    /\ (op = "find_support_levels" /\ global_only /\ NumericLows) =>
          LET S == SupportIdx IN
          IF S = {} THEN result = NoneResult
          ELSE /\ result.kind = "level"
               /\ \E i \in S :
                     /\ result.levels = <<SupportLevelAt(i)>>
                     /\ \A k \in S : ~Below(RawLow(k), RawLow(i))
    /\ (op = "find_resistance_levels" /\ global_only /\ NumericHighs) =>
          LET S == ResistanceIdx IN
          IF S = {} THEN result = NoneResult
          ELSE /\ result.kind = "level"
               /\ \E i \in S :
                     /\ result.levels = <<ResistanceLevelAt(i)>>
                     /\ \A k \in S : ~Below(RawHigh(i), RawHigh(k))

\* the global support is the second of two support points of different prices
C3_Witness ==
    /\ op = "find_support_levels" /\ global_only
    /\ Cardinality(SupportIdx) = 2
    /\ result.levels = <<SupportLevelAt(Nth(SupportIdx, 2))>>
    /\ Below(RawLow(Nth(SupportIdx, 2)), RawLow(Nth(SupportIdx, 1)))

\* the qualifying points that share the price of the level returned
SupportTies == {k \in SupportIdx : RawLow(k) = result.levels[1].price}
ResistanceTies == {k \in ResistanceIdx : RawHigh(k) = result.levels[1].price}

\* C4 as stated: with global_only=True, among the qualifying points of the
\* extreme price the one returned has the lexically lowest timestamp
\* string, for find_support_levels and for find_resistance_levels.
C4_LowestTimestampBoth ==
    /\ (op = "find_support_levels" /\ global_only /\ result.kind = "level") =>
          \A k \in SupportTies : ~StrLess(RawDate(k).s, result.levels[1].datetime.s)
    /\ (op = "find_resistance_levels" /\ global_only /\ result.kind = "level") =>
          \A k \in ResistanceTies : ~StrLess(RawDate(k).s, result.levels[1].datetime.s)

\* C4 amended: with global_only=True, among the qualifying points of the
\* extreme price find_support_levels returns the one with the lexically
\* lowest timestamp string and find_resistance_levels the one with the
\* lexically highest timestamp string.
C4_TieBreak ==
    /\ (op = "find_support_levels" /\ global_only /\ result.kind = "level") =>
          \A k \in SupportTies : ~StrLess(RawDate(k).s, result.levels[1].datetime.s)
    /\ (op = "find_resistance_levels" /\ global_only /\ result.kind = "level") =>
          \A k \in ResistanceTies : ~StrLess(result.levels[1].datetime.s, RawDate(k).s)

\* two resistance points share the highest price and differ in timestamp
C4_Witness ==
    /\ op = "find_resistance_levels" /\ global_only /\ result.kind = "level"
    /\ \E i, k \in ResistanceTies : RawDate(i) # RawDate(k)

\* C5: on a well-formed series of 1 to 4 points both methods return the
\* empty list (global_only=False) or None (global_only=True) and raise
\* nothing.
C5_ShortSeries ==
    (op # "" /\ FeedLen >= 1 /\ FeedLen <= 4)
        => result = IF global_only THEN NoneResult ELSE ListResult(<<>>)

\* find_resistance_levels(global_only=True) returned None on 4 points
C5_Witness ==
    /\ op = "find_resistance_levels" /\ global_only
    /\ FeedLen = 4
    /\ result = NoneResult
(***************************************************************************)
(* The normalizer.                                                         *)
(***************************************************************************)
\* the adapter's answer is None, has no record, or has a record with an
\* empty-string or None field
FeedRejected ==
    \/ feed.kind = "None"
    \/ /\ feed.kind = "list"
       /\ \/ feed.recs = <<>>
          \/ \E i \in 1..Len(feed.recs) : \E key \in Keys :
                feed.recs[i][key] \in EmptyValues

\* C6: get_processed_data rejects such a batch as a whole: it raises
\* ValueError, returns no records, and no record of the batch has been
\* coerced or stamped.
C6_RejectsWholeBatch ==
    (op = "get_processed_data" /\ FeedRejected)
        => got.exc = "ValueError" /\ got.recs = feed.recs

\* a batch whose first record is well-formed and whose second has one empty
\* field was rejected
C6_Witness ==
    /\ op = "get_processed_data"
    /\ feed.kind = "list" /\ Len(feed.recs) = 2
    /\ \A key \in Keys : feed.recs[1][key] \notin EmptyValues
    /\ Cardinality({key \in Keys : feed.recs[2][key] \in EmptyValues}) = 1
    /\ got.exc = "ValueError"

\* C7: after a successful normalization every record carries the requested
\* symbol unchanged as its ticker, whatever the symbol string, the same
\* execution_timestamp as every other record, and its datetime as received.
C7_StampsEveryRecord ==
    (op = "get_processed_data" /\ got.exc = "") =>
        \A i \in 1..Len(got.recs) :
            /\ got.recs[i]["ticker"] = symbol
            /\ got.recs[i]["execution_timestamp"] = got.recs[1]["execution_timestamp"]
            /\ got.recs[i]["datetime"] = feed.recs[i]["datetime"]
(***************************************************************************)
(* The dashboard request.                                                  *)
(***************************************************************************)
\* the marker line of a level, from the level's own point to the first point
OwnLine(level, color) ==
    [x0 |-> ToDatetime(level.datetime), y0 |-> level.price,
     x1 |-> ToDatetime(processed_data[1]["datetime"]), y1 |-> level.price,
     color |-> color]

OwnLines(levels, color) ==
    [j \in 1..Len(levels.levels) |-> OwnLine(levels.levels[j], color)]

\* C8: the chart method adds exactly one line per detected level, from the
\* timestamp of the level's own point to the timestamp of the series' first
\* point, at the level's price.  (Stated for the requests whose three
\* fetches gave the same series, so that every level is a point of the
\* plotted series.)
C8_LinesFromOwnPoint ==
    (pc = "returned" /\ stable) =>
        shapes = OwnLines(support_levels, "blue") \o OwnLines(resistance_levels, "orange")

Before(first, later) ==
    \E i, j \in 1..Len(stages) : i < j /\ stages[i] = first /\ stages[j] = later

\* C9: within one request the stages run fetch, normalize, scan, render:
\* after a scan step no fetch or normalize step occurs, and after a render
\* step no fetch, normalize or scan step occurs.
C9_LinearStages ==
    /\ ~Before("scan", "fetch") /\ ~Before("scan", "normalize")
    /\ ~Before("render", "fetch") /\ ~Before("render", "normalize")
    /\ ~Before("render", "scan")

\* C10: a request whose fetches all succeed with well-formed batches (none
\* raised RuntimeError, none was rejected with ValueError) does not raise,
\* and the price of every line it overlays is the low (blue) or the high
\* (orange) of a point of the plotted series.
C10_CompletesOnPlottedSeries ==
    /\ pc = "raised" => exc \in {"RuntimeError", "ValueError"}
    /\ \A j \in 1..Len(shapes) :
          \E i \in 1..Len(df) :
              df[i][IF shapes[j].color = "blue" THEN "low" ELSE "high"] = shapes[j].y0
====
